---- MODULE Spec2Model ----
(***************************************************************************)
(* A model of balaio: the process supervisor (balaio.py: main, terminate), *)
(* the checkout run loop and its uploads (checkout.py), the validation     *)
(* pipe (vpipes.py)                                                        *)
(* and the library of utils.py: the framed messaging protocol              *)
(* (send_message / recv_messages / FileLikeSocket), the Configuration      *)
(* singleton, and the ISSN and issue-designator functions.                 *)
(*                                                                         *)
(* The subsystems share no state in the program.  Each has its own         *)
(* specification (SpecTerminate, SpecSupervisor, SpecCheckout, SpecMsg,    *)
(* SpecPipe, SpecConfig, SpecIssn, SpecIssue, SpecUpload); the variables   *)
(* of the other subsystems stay at their idle values.                      *)
(***************************************************************************)
EXTENDS Integers, Sequences, FiniteSets, TLC

VARIABLES
    \* ---- balaio.py: terminate(procs) ----
    procs,        \* the list handed to terminate(), in start order
    child,        \* child -> [alive, rc]: the OS process behind each Popen handle
    tpc,          \* position of terminate(): "for" | "poll" | "done"
    idx,          \* position of the outer for loop in reversed(procs), from 1
    t_try,        \* the inner loop's t_try
    termOrder,    \* history: children in the order p.terminate() was called
    polls,        \* history: child -> number of p.poll() calls
    sawExit,      \* history: child -> a poll found the child exited
    killed,       \* history: child -> p.kill() was called
    handled,      \* history: child -> its wait-then-kill handling has finished
    \* ---- checkout.py: main(config) and the pool's checkout_procedure tasks ----
    db,           \* attempt -> its committed row in the datastore
    mem,          \* attempt -> the session's object (uncommitted changes included)
    cpc,          \* position of main(): "query" | "map" | "sleep" | "raised"
    iter,         \* number of the current pass of `while True`, from 1
    checkout_lst, \* the CheckoutList built by this pass
    task,         \* attempt -> [st, at]: its checkout_procedure call in the pool
    steps,        \* history: attempt -> the statements its call executed, with outcome
    dbAtQuery,    \* history: db as it was when this pass queried
    committed,    \* history: the passes whose transaction was committed
    \* ---- utils.py: send_message / recv_messages over one stream ----
    kind,         \* the stream: "file" (file-like object) | "socket" (FileLikeSocket)
    wire,         \* every byte written to the stream so far, as it is in transit
    closed,       \* the writing end has been closed
    stdout_lock,  \* utils.stdout_lock: 0 free, else the sending thread holding it
    spc,          \* thread -> position in send_message: "idle" | "body" | "done"
    sending,      \* thread -> the serialized message it is writing
    sentLog,      \* history: the frames in the order their headers were written
    stdin_lock,   \* utils.stdin_lock is held (by the receiver)
    rpc,          \* position of recv_messages
    rpos,         \* number of bytes of wire the receiver has consumed
    chars,        \* FileLikeSocket.readline: the characters collected so far
    in_digest,    \* recv_messages: in_digest
    in_length,    \* recv_messages: int(in_length)
    in_message,   \* recv_messages: in_message
    yielded,      \* history: the messages recv_messages has yielded
    emptyRecvs,   \* history: reads of the header that returned '' (end of stream)
    ncorrupt,     \* history: number of bytes corrupted in transit
    \* ---- vpipes.py: ValidationPipe.transform over the items fed to the pipe ----
    items,        \* the items fed to the pipe, in order
    pos,          \* index of the item whose transform() is executing, from 1
    vpc,          \* state of that execution: "Gated" | "Validated" | "stopped"
    result,       \* result_status returned by validate() for the current item
    session,      \* the notices recorded in the outer unit of work, in order
    path,         \* history: execution -> the states it went through
    returned,     \* history: execution -> how transform() ended (return / raise)
    atEntry,      \* history: execution -> session as it was when it started
    nvalidate,    \* history: execution -> number of calls of validate()
    nsavepoint,   \* history: execution -> number of savepoints opened
    nrollback,    \* history: execution -> number of savepoint rollbacks
    tellRaised,   \* history: execution -> the notifier's tell() raised
    \* ---- balaio.py: main() and the __main__ block of the supervisor ----
    svpc,         \* position: "off" | "main" | "monitor_up" | "validator_up" | "loop"
                  \*           | "atexit" | "exited"
    launched,     \* the children started by run_monitor() / run_validator()
    atexit,       \* the argument lists registered with atexit for terminate
    exitStatus,   \* the status given to sys.exit(), "none" before
    interruptedAt, \* history: svpc when KeyboardInterrupt was raised, "none" before
    \* ---- utils.py: SingletonMixin, Configuration ----
    files,        \* the file objects opened so far: files[fp] is the path of object fp
    instances,    \* SingletonMixin._instances: the entries [cls, fp, inst] of live instances
    ninst,        \* number of Configuration instances created so far
    held,         \* the instances some caller still references
    loadLog,      \* history: the loads made, with what each returned
    \* ---- utils.py: the ISSN and issue-designator functions ----
    call,         \* the call made: [fn, args]
    ret           \* how the call ended: pending, a returned tuple, or a raised error

termVars == <<procs, child, tpc, idx, t_try, termOrder, polls, sawExit, killed, handled>>

coVars == <<db, mem, cpc, iter, checkout_lst, task, steps, dbAtQuery, committed>>

msgVars == <<kind, wire, closed, stdout_lock, spc, sending, sentLog, stdin_lock, rpc, rpos,
             chars, in_digest, in_length, in_message, yielded, emptyRecvs, ncorrupt>>

pipeVars == <<items, pos, vpc, result, session, path, returned, atEntry, nvalidate,
              nsavepoint, nrollback, tellRaised>>

\* The subsystems added after the first three.
svVars == <<svpc, launched, atexit, exitStatus, interruptedAt>>

cfgVars == <<files, instances, ninst, held, loadLog>>

libVars == <<call, ret>>

extVars == <<pipeVars, svVars, cfgVars, libVars>>

vars == <<termVars, coVars, msgVars, extVars>>


(***************************************************************************)
(* balaio.py: terminate(procs)                                             *)
(***************************************************************************)

\* Bound: the longest list of children handed to terminate().
MaxProcs == 2

\* range(10): the number of polls of the grace window.
GraceTries == 10

Children == 1..MaxProcs

\* Exit statuses a child can end with: clean exit, error exit, death by SIGTERM.
ExitCodes == {0, 1, -15}

\* Mutant of reversed: the list in start order.
reversed_Forward(s) == s

\* reversed(procs): the list from its last element to its first.
reversed(s) == [i \in 1..Len(s) |-> s[Len(s) - i + 1]]

\* The child the outer for loop is at.
CurrentProc == reversed(procs)[idx]

\* Popen.poll(): None while the child runs, its return code once it has exited.
PollResult(c) ==
    IF child[c].alive THEN [none |-> TRUE, val |-> 0]
                      ELSE [none |-> FALSE, val |-> child[c].rc]

\* Python's `not x` for x a poll() result: true of None and of 0.
PyNot(r) == r.none \/ r.val = 0

\* The test of line 53, `if not p.poll()`: keep waiting.
StillTrying(c) == PyNot(PollResult(c))

\* Mutant of WindowExhausted: the window closes one try early.
WindowExhausted_OneShort(t) == t = GraceTries - 1

\* The for-else of lines 52..61: the loop ran out of tries without a break.
WindowExhausted(t) == t = GraceTries

TermVarsInit ==
    /\ procs \in {[i \in 1..n |-> i] : n \in 0..MaxProcs}
    /\ child = [c \in Children |-> [alive |-> TRUE, rc |-> 0]]
    /\ tpc = "for"
    /\ idx = 1
    /\ t_try = 0
    /\ termOrder = <<>>
    /\ polls = [c \in Children |-> 0]
    /\ sawExit = [c \in Children |-> FALSE]
    /\ killed = [c \in Children |-> FALSE]
    /\ handled = [c \in Children |-> FALSE]

\* terminate() is not running and there are no children.
TermIdle ==
    /\ procs = <<>>
    /\ child = [c \in Children |-> [alive |-> TRUE, rc |-> 0]]
    /\ tpc = "idle"
    /\ idx = 1
    /\ t_try = 0
    /\ termOrder = <<>>
    /\ polls = [c \in Children |-> 0]
    /\ sawExit = [c \in Children |-> FALSE]
    /\ killed = [c \in Children |-> FALSE]
    /\ handled = [c \in Children |-> FALSE]

\* for p in reversed(procs): p.terminate()
TermRequest ==
    /\ tpc = "for"
    /\ idx <= Len(procs)
    /\ termOrder' = Append(termOrder, CurrentProc)
    /\ t_try' = 0
    /\ tpc' = "poll"
    /\ UNCHANGED <<procs, child, idx, polls, sawExit, killed, handled>>

\* One pass of `for t_try in range(10)`: poll, then sleep and continue, or break.
Poll ==
    /\ tpc = "poll"
    /\ ~WindowExhausted(t_try)
    /\ LET c == CurrentProc IN
        /\ polls' = [polls EXCEPT ![c] = @ + 1]
        /\ sawExit' = [sawExit EXCEPT ![c] = @ \/ ~child[c].alive]
        /\ IF StillTrying(c)
              THEN /\ t_try' = t_try + 1
                   /\ UNCHANGED <<tpc, idx, handled>>
              ELSE /\ handled' = [handled EXCEPT ![c] = TRUE]
                   /\ idx' = idx + 1
                   /\ tpc' = "for"
                   /\ UNCHANGED t_try
    /\ UNCHANGED <<procs, child, termOrder, killed>>

\* The else of the inner for: p.kill()
Kill ==
    /\ tpc = "poll"
    /\ WindowExhausted(t_try)
    /\ LET c == CurrentProc IN
        /\ killed' = [killed EXCEPT ![c] = TRUE]
        /\ child' = [child EXCEPT ![c] =
                        IF @.alive THEN [alive |-> FALSE, rc |-> -9] ELSE @]
        /\ handled' = [handled EXCEPT ![c] = TRUE]
    /\ idx' = idx + 1
    /\ tpc' = "for"
    /\ UNCHANGED <<procs, t_try, termOrder, polls, sawExit>>

\* The outer for loop is exhausted: terminate() returns.
TermReturn ==
    /\ tpc = "for"
    /\ idx > Len(procs)
    /\ tpc' = "done"
    /\ UNCHANGED <<procs, child, idx, t_try, termOrder, polls, sawExit, killed, handled>>

\* The environment: a running child exits, at any time, with any status.
ChildExit ==
    \E c \in Children, rc \in ExitCodes :
        /\ c <= Len(procs)
        /\ child[c].alive
        /\ child' = [child EXCEPT ![c] = [alive |-> FALSE, rc |-> rc]]
        /\ UNCHANGED <<procs, tpc, idx, t_try, termOrder, polls, sawExit, killed, handled>>

\* The steps of terminate() itself.
TerminateStep ==
    (TermRequest \/ Poll \/ Kill \/ TermReturn) /\ UNCHANGED <<coVars, msgVars, extVars>>

(***************************************************************************)
(* balaio.py: main and the __main__ block                                  *)
(***************************************************************************)

\* The children of the supervisor: run_monitor() starts the first,
\* run_validator() the second.
Monitor == 1

Validator == 2

\* Mutant of MainProcs: the validator is left out of the list.
MainProcs_MonitorOnly == <<Monitor>>

\* procs = [monitor, validator]
MainProcs == <<Monitor, Validator>>

\* A child that was started and has not exited.
Running(c) == c \in launched /\ child[c].alive

\* The supervisor has been started: `try: main()` is about to run.
SvVarsInit ==
    /\ svpc = "main"
    /\ launched = {}
    /\ atexit = <<>>
    /\ exitStatus = "none"
    /\ interruptedAt = "none"

\* The supervisor is not part of the run.
SvIdle ==
    /\ svpc = "off"
    /\ launched = {}
    /\ atexit = <<>>
    /\ exitStatus = "none"
    /\ interruptedAt = "none"

\* monitor = run_monitor()
RunMonitor ==
    /\ svpc = "main"
    /\ launched' = launched \cup {Monitor}
    /\ svpc' = "monitor_up"
    /\ UNCHANGED <<atexit, exitStatus, interruptedAt, termVars>>

\* validator = run_validator()
RunValidator ==
    /\ svpc = "monitor_up"
    /\ launched' = launched \cup {Validator}
    /\ svpc' = "validator_up"
    /\ UNCHANGED <<atexit, exitStatus, interruptedAt, termVars>>

\* procs = [monitor, validator]; atexit.register(terminate, procs); the
\* supervisor then idles in `while True: time.sleep(1)`.
Register ==
    /\ svpc = "validator_up"
    /\ atexit' = Append(atexit, MainProcs)
    /\ svpc' = "loop"
    /\ UNCHANGED <<launched, exitStatus, interruptedAt, termVars>>

\* KeyboardInterrupt is raised in main(), at any point of it; the except
\* clause of the __main__ block calls sys.exit(0).
KeyboardInterrupt ==
    /\ svpc \in {"main", "monitor_up", "validator_up", "loop"}
    /\ interruptedAt' = svpc
    /\ exitStatus' = "0"
    /\ svpc' = "atexit"
    /\ UNCHANGED <<launched, atexit, termVars>>

\* Interpreter exit calls the registered handler: terminate(procs) starts.
AtExitCall ==
    /\ svpc = "atexit"
    /\ tpc = "idle"
    /\ atexit # <<>>
    /\ procs' = atexit[1]
    /\ tpc' = "for"
    /\ UNCHANGED <<svVars, child, idx, t_try, termOrder, polls, sawExit, killed, handled>>

\* The process exits: no handler is registered, or terminate() has returned.
ProcessExit ==
    /\ svpc = "atexit"
    /\ \/ atexit = <<>> /\ tpc = "idle"
       \/ tpc = "done"
    /\ svpc' = "exited"
    /\ UNCHANGED <<launched, atexit, exitStatus, interruptedAt, termVars>>

\* The environment: a started child exits, at any time, with any status.
LaunchedChildExit ==
    \E c \in Children, rc \in ExitCodes :
        /\ Running(c)
        /\ child' = [child EXCEPT ![c] = [alive |-> FALSE, rc |-> rc]]
        /\ UNCHANGED <<svVars, procs, tpc, idx, t_try, termOrder, polls, sawExit, killed,
                       handled>>

(***************************************************************************)
(* checkout.py: CheckoutList, checkout_procedure, main                     *)
(***************************************************************************)

\* Bound: the number of attempts in the datastore.
NAttempts == 3

\* Bound: the passes of main()'s `while True` that are followed.
MaxIter == 2

Attempts == 1..NAttempts

\* checkout_started_at of an attempt never checked out (None).
NoTime == 0

\* datetime.now() during pass i: later passes read later times.
Now == iter

\* The rows main() can find in the datastore when it starts.
AttemptRows ==
    [proceed_to_checkout : BOOLEAN, pending_checkout : BOOLEAN,
     queued_checkout : BOOLEAN, checkout_started_at : {NoTime}]

\* session.query(models.Attempt).filter_by(proceed_to_checkout=True,
\* pending_checkout=True).all(), in the order of the attempts' ids.
RECURSIVE Eligible(_, _)
Eligible(rows, n) ==
    IF n = 0 THEN <<>>
    ELSE LET rest == Eligible(rows, n - 1) IN
         IF rows[n].proceed_to_checkout /\ rows[n].pending_checkout
            THEN Append(rest, n) ELSE rest

attempts_checkout == Eligible(mem, NAttempts)

\* isinstance(item, models.Attempt): what main() appends is the tuple
\* (attempt, client, conn); a bare attempt is an Attempt, a tuple is not.
IsAttempt(item) == item.type = "Attempt"

\* The item main() builds at line 160 for attempt a.
Item(a) == [type |-> "tuple", attempt |-> a]

\* CheckoutList.append(item): the session objects after the append.
AppendMarks(objs, item) ==
    IF IsAttempt(item)
       THEN [objs EXCEPT ![item.attempt].queued_checkout = TRUE]
       ELSE objs

\* `for attempt in attempts_checkout: checkout_lst.append((attempt, client, conn))`:
\* the session objects after the first n appends.
RECURSIVE EnqueueAll(_, _, _)
EnqueueAll(objs, batch, n) ==
    IF n = 0 THEN objs
    ELSE AppendMarks(EnqueueAll(objs, batch, n - 1), Item(batch[n]))

\* The statements of checkout_procedure, in program order.
checkout_procedure == <<"started_at", "static", "meta", "clear">>

\* The statements that call out (upload_static_files, upload_meta_front) and can raise.
CanRaise(op) == op \in {"static", "meta"}

\* What a call does after statement k returned.
AfterReturn(k) ==
    IF k = Len(checkout_procedure) THEN [st |-> "done", at |-> k]
                                   ELSE [st |-> "run", at |-> k + 1]

\* Mutant of AfterRaise: the error is swallowed and the call carries on.
AfterRaise_CarryOn(k) == AfterReturn(k)

\* What a call does after statement k raised: nothing more, the error propagates.
AfterRaise(k) == [st |-> "failed", at |-> k]

\* The attempts of the list pool.map() was given.
InBatch(a) == \E k \in 1..Len(checkout_lst) : checkout_lst[k].attempt = a

\* Mutant of MapReturns: a call that raised counts as finished.
MapReturns_AnyOutcome ==
    \A a \in Attempts : InBatch(a) => task[a].st \in {"done", "failed"}

\* Mutant of MapReturns: the first call that returns ends the wait.
MapReturns_FirstDone == \E a \in Attempts : InBatch(a) /\ task[a].st = "done"

\* pool.map() returns: every call has returned.
MapReturns == \A a \in Attempts : InBatch(a) => task[a].st = "done"

\* pool.map() raises: a call has raised.
MapRaises == \E a \in Attempts : InBatch(a) /\ task[a].st = "failed"

NoTask == [st |-> "none", at |-> 0]

CoVarsInit ==
    /\ db \in [Attempts -> AttemptRows]
    /\ mem = db
    /\ cpc = "query"
    /\ iter = 1
    /\ checkout_lst = <<>>
    /\ task = [a \in Attempts |-> NoTask]
    /\ steps = [a \in Attempts |-> <<>>]
    /\ dbAtQuery = db
    /\ committed = {}

\* The checkout runner is not running.
CoIdle ==
    /\ db = [a \in Attempts |-> [proceed_to_checkout |-> FALSE, pending_checkout |-> FALSE,
                                 queued_checkout |-> FALSE, checkout_started_at |-> NoTime]]
    /\ mem = db
    /\ cpc = "idle"
    /\ iter = 1
    /\ checkout_lst = <<>>
    /\ task = [a \in Attempts |-> NoTask]
    /\ steps = [a \in Attempts |-> <<>>]
    /\ dbAtQuery = db
    /\ committed = {}

\* Lines 149..163 with items found: build the list and hand it to pool.map().
QueryAndDispatch ==
    /\ cpc = "query"
    /\ attempts_checkout # <<>>
    /\ LET batch == attempts_checkout IN
        /\ checkout_lst' = [k \in 1..Len(batch) |-> Item(batch[k])]
        /\ mem' = EnqueueAll(mem, batch, Len(batch))
        /\ task' = [a \in Attempts |->
                      IF \E k \in 1..Len(batch) : batch[k] = a
                         THEN [st |-> "run", at |-> 1] ELSE NoTask]
    /\ steps' = [a \in Attempts |-> <<>>]
    /\ dbAtQuery' = db
    /\ cpc' = "map"
    /\ UNCHANGED <<db, iter, committed>>

\* Lines 149..154 with nothing found: straight to the sleep.
QueryNothing ==
    /\ cpc = "query"
    /\ attempts_checkout = <<>>
    /\ checkout_lst' = <<>>
    /\ task' = [a \in Attempts |-> NoTask]
    /\ steps' = [a \in Attempts |-> <<>>]
    /\ dbAtQuery' = db
    /\ cpc' = "sleep"
    /\ UNCHANGED <<db, mem, iter, committed>>

\* A pool thread executes the next statement of checkout_procedure(item).
CheckoutStep(a) ==
    /\ cpc = "map"
    /\ task[a].st = "run"
    /\ LET k == task[a].at
           op == checkout_procedure[k]
       IN \E ok \in (IF CanRaise(op) THEN BOOLEAN ELSE {TRUE}) :
            /\ steps' = [steps EXCEPT ![a] = Append(@, [op |-> op, ok |-> ok])]
            /\ task' = [task EXCEPT ![a] = IF ok THEN AfterReturn(k) ELSE AfterRaise(k)]
            /\ mem' = CASE op = "started_at" ->
                             [mem EXCEPT ![a].checkout_started_at = Now]
                        [] op = "clear" ->
                             [mem EXCEPT ![a].queued_checkout = FALSE]
                        [] OTHER -> mem
    /\ UNCHANGED <<db, cpc, iter, checkout_lst, dbAtQuery, committed>>

\* Lines 163..165: pool.map() returned and transaction.commit() succeeds.
MapReturnCommit ==
    /\ cpc = "map"
    /\ MapReturns
    /\ db' = mem
    /\ committed' = committed \cup {iter}
    /\ cpc' = "sleep"
    /\ UNCHANGED <<mem, iter, checkout_lst, task, steps, dbAtQuery>>

\* Lines 163..168: pool.map() raised, or transaction.commit() did:
\* transaction.abort(), then the error leaves main().
ExceptAbortRaise ==
    /\ cpc = "map"
    /\ MapRaises \/ MapReturns
    /\ mem' = db
    /\ cpc' = "raised"
    /\ UNCHANGED <<db, iter, checkout_lst, task, steps, dbAtQuery, committed>>

\* Line 170: time.sleep(), then the next pass.
SleepThenLoop ==
    /\ cpc = "sleep"
    /\ iter < MaxIter
    /\ iter' = iter + 1
    /\ cpc' = "query"
    /\ UNCHANGED <<db, mem, checkout_lst, task, steps, dbAtQuery, committed>>

(***************************************************************************)
(* utils.py: send_message, recv_messages, FileLikeSocket                   *)
(***************************************************************************)

\* Bound: the threads that call send_message, one message each.
NSenders == 2

\* Bound: the bytes the transport may corrupt.
MaxCorrupt == 1

\* Bound: how many empty reads of one header are followed.
MaxSpin == 2

Senders == 1..NSenders

\* The byte values of the model, each with its code.
ByteList ==
    <<"0", "1", "2", "3", "4", "5", "6", "7", "8", "9", "a", "b", "c", "d", "e", "f",
      " ", "\n", "x", "y", ".">>

Code(b) == CHOOSE i \in 1..Len(ByteList) : ByteList[i] = b

Digits == {"0", "1", "2", "3", "4", "5", "6", "7", "8", "9"}

\* The messages a sender may pass to send_message.
Messages == {<<"x">>, <<"\n", " ">>}

\* The bytes a corrupted byte may turn into.
CorruptBytes == {"y"}

\* pickle.dumps(message, HIGHEST_PROTOCOL): the payload, then the STOP opcode.
dumps(m) == m \o <<".">>

\* pickle.loads(s) for a string that pickle.dumps produced.
loads(s) == SubSeq(s, 1, Len(s) - 1)

\* pickle.loads(s) raises on a string that does not end in the STOP opcode.
LoadsRaises(s) == Len(s) = 0 \/ s[Len(s)] # "."

RECURSIVE WeightedSum(_)
WeightedSum(s) ==
    IF s = <<>> THEN 0 ELSE WeightedSum(SubSeq(s, 1, Len(s) - 1)) + Len(s) * Code(s[Len(s)])

\* digest(serialized): a keyed hash of the bytes as lower-case hex text
\* (make_digest is HMAC-SHA1; here a one-character position-weighted checksum).
digest(s) == <<ByteList[(WeightedSum(s) % 16) + 1]>>

\* '%s' % n for a length n >= 0.
RECURSIVE str(_)
str(n) == IF n < 10 THEN <<ByteList[n + 1]>> ELSE str(n \div 10) \o <<ByteList[(n % 10) + 1]>>

\* header = '%s %s\n' % (data_digest, len(serialized))
Header(serialized) == digest(serialized) \o <<" ">> \o str(Len(serialized)) \o <<"\n">>

\* Mutant of MayWrite: the writes are not guarded by the lock.
MayWrite_NoLock(t) == TRUE

\* `with stdout_lock:` can be entered by thread t.
MayWrite(t) == stdout_lock = 0

\* The bytes in transit that the receiver has not consumed.
Unread == SubSeq(wire, rpos + 1, Len(wire))

\* Number of spaces in a string: header.split(' ') has one part more.
RECURSIVE Count(_, _)
Count(s, b) ==
    IF s = <<>> THEN 0
    ELSE Count(SubSeq(s, 1, Len(s) - 1), b) + (IF s[Len(s)] = b THEN 1 ELSE 0)

\* Index of the first b in s, 0 if there is none.
RECURSIVE Find(_, _, _)
Find(s, b, i) ==
    IF i > Len(s) THEN 0 ELSE IF s[i] = b THEN i ELSE Find(s, b, i + 1)

\* s.strip(): without leading and trailing whitespace.
RECURSIVE strip(_)
strip(s) ==
    IF s = <<>> THEN s
    ELSE IF s[1] \in {" ", "\n"} THEN strip(Tail(s))
    ELSE IF s[Len(s)] \in {" ", "\n"} THEN strip(SubSeq(s, 1, Len(s) - 1))
    ELSE s

RECURSIVE DigitsValue(_)
DigitsValue(s) ==
    IF s = <<>> THEN 0 ELSE 10 * DigitsValue(SubSeq(s, 1, Len(s) - 1)) + (Code(s[Len(s)]) - 1)

\* int(text) raises ValueError unless the stripped text is a run of digits.
IntRaises(s) ==
    LET t == strip(s) IN t = <<>> \/ \E i \in 1..Len(t) : t[i] \notin Digits

\* int(text)
int(s) == DigitsValue(strip(s))

\* `in_digest, in_length = header.split(' ')` raises unless there are two parts.
SplitRaises(header) == Count(header, " ") # 1

\* What lines 210..213 make of a header line:
\* "stop" (empty: StopIteration), "raise" (ValueError), or "read" with digest and length.
ParseHeader(header) ==
    IF header = <<>> THEN [to |-> "stop", digest |-> <<>>, length |-> 0]
    ELSE IF SplitRaises(header) THEN [to |-> "raise", digest |-> <<>>, length |-> 0]
    ELSE LET sp == Find(header, " ", 1)
             d  == SubSeq(header, 1, sp - 1)
             l  == SubSeq(header, sp + 1, Len(header))
         IN IF IntRaises(l) THEN [to |-> "raise", digest |-> <<>>, length |-> 0]
            ELSE [to |-> "read", digest |-> d, length |-> int(l)]

\* file.readline() is ready: a whole line is there, or the stream has ended.
FileLineReady == Find(Unread, "\n", 1) > 0 \/ closed

\* file.readline(): up to and including the newline, or what is left at the end.
FileLine ==
    LET nl == Find(Unread, "\n", 1) IN
    IF nl > 0 THEN SubSeq(Unread, 1, nl) ELSE Unread

\* The numbers of bytes one stream.read(n) may return:
\* a file object returns n bytes, fewer only at the end of the stream;
\* FileLikeSocket.read is sock.recv(n), which returns whatever has arrived, up to n.
ReadSizes(n) ==
    LET avail == Len(Unread) IN
    IF n = 0 THEN {0}
    ELSE IF kind = "file"
         THEN (IF avail >= n THEN {n} ELSE IF closed THEN {avail} ELSE {})
         ELSE (IF avail > 0 THEN 1..(IF avail < n THEN avail ELSE n)
               ELSE IF closed THEN {0} ELSE {})

\* `if in_digest == digest(in_message)`
DigestMatches == in_digest = digest(in_message)

MsgVarsInit ==
    /\ kind \in {"file", "socket"}
    /\ wire = <<>>
    /\ closed = FALSE
    /\ stdout_lock = 0
    /\ spc = [t \in Senders |-> "idle"]
    /\ sending = [t \in Senders |-> <<>>]
    /\ sentLog = <<>>
    /\ stdin_lock = FALSE
    /\ rpc = "top"
    /\ rpos = 0
    /\ chars = <<>>
    /\ in_digest = <<>>
    /\ in_length = 0
    /\ in_message = <<>>
    /\ yielded = <<>>
    /\ emptyRecvs = 0
    /\ ncorrupt = 0

\* No stream is open.
MsgIdle ==
    /\ kind = "file"
    /\ wire = <<>>
    /\ closed = TRUE
    /\ stdout_lock = 0
    /\ spc = [t \in Senders |-> "done"]
    /\ sending = [t \in Senders |-> <<>>]
    /\ sentLog = <<>>
    /\ stdin_lock = FALSE
    /\ rpc = "idle"
    /\ rpos = 0
    /\ chars = <<>>
    /\ in_digest = <<>>
    /\ in_length = 0
    /\ in_message = <<>>
    /\ yielded = <<>>
    /\ emptyRecvs = 0
    /\ ncorrupt = 0

recvVars == <<stdin_lock, rpc, rpos, chars, in_digest, in_length, in_message, yielded, emptyRecvs>>
sendVars == <<stdout_lock, spc, sending>>

\* send_message, lines 166..172: serialize, digest, take the lock, write the header.
SendHeader(t) ==
    \E m \in Messages :
        LET serialized == dumps(m) IN
        /\ spc[t] = "idle"
        /\ ~closed
        /\ MayWrite(t)
        /\ stdout_lock' = t
        /\ wire' = wire \o Header(serialized)
        /\ sending' = [sending EXCEPT ![t] = serialized]
        /\ spc' = [spc EXCEPT ![t] = "body"]
        /\ sentLog' = Append(sentLog, [by |-> t, msg |-> m, header |-> Header(serialized),
                                       body |-> <<>>, at |-> 0, corrupted |-> FALSE])
        /\ UNCHANGED <<kind, closed, ncorrupt, recvVars>>

\* The frame of sentLog that thread t is writing.
FrameOf(t) == CHOOSE j \in 1..Len(sentLog) : sentLog[j].by = t

\* send_message, lines 173..174: write the body, flush, leave the lock.
SendBody(t) ==
    /\ spc[t] = "body"
    /\ wire' = wire \o sending[t]
    /\ sentLog' = [sentLog EXCEPT ![FrameOf(t)].body = sending[t],
                                  ![FrameOf(t)].at = Len(wire) + 1]
    /\ stdout_lock' = 0
    /\ spc' = [spc EXCEPT ![t] = "done"]
    /\ UNCHANGED <<kind, closed, sending, ncorrupt, recvVars>>

\* The writing end is closed once no frame is half written.
CloseStream ==
    /\ ~closed
    /\ \A t \in Senders : spc[t] # "body"
    /\ closed' = TRUE
    /\ UNCHANGED <<kind, wire, sendVars, sentLog, ncorrupt, recvVars>>

\* The transport corrupts one byte of a body the receiver has not started to read.
CorruptBody ==
    \E j \in 1..Len(sentLog), b \in CorruptBytes : \E k \in 1..Len(sentLog[j].body) :
        LET f == sentLog[j]
            p == f.at + k - 1
        IN /\ ncorrupt < MaxCorrupt
           /\ f.at > rpos
           /\ wire[p] # b
           /\ wire' = [wire EXCEPT ![p] = b]
           /\ sentLog' = [sentLog EXCEPT ![j].body = [@ EXCEPT ![k] = b],
                                         ![j].corrupted = TRUE]
           /\ ncorrupt' = ncorrupt + 1
           /\ UNCHANGED <<kind, closed, sendVars, recvVars>>

\* recv_messages, line 208: top of `while True`, enter `with stdin_lock:`.
RecvEnter ==
    /\ rpc = "top"
    /\ ~stdin_lock
    /\ stdin_lock' = TRUE
    /\ chars' = <<>>
    /\ emptyRecvs' = 0
    /\ rpc' = "readline"
    /\ UNCHANGED <<kind, wire, closed, sendVars, sentLog, ncorrupt,
                   rpos, in_digest, in_length, in_message, yielded>>

\* Lines 210..213 once stream.readline() has returned `header`, having consumed n bytes.
HeaderRead(header, n) ==
    LET h == ParseHeader(header) IN
    /\ rpos' = rpos + n
    /\ chars' = <<>>
    /\ in_digest' = h.digest
    /\ in_length' = h.length
    /\ rpc' = CASE h.to = "stop" -> "stopped"
                [] h.to = "raise" -> "raised"
                [] OTHER -> "read"
    /\ stdin_lock' = (h.to = "read")
    /\ UNCHANGED <<kind, wire, closed, sendVars, sentLog, ncorrupt, in_message, yielded>>

\* Line 209 on a file-like stream: header = stream.readline().
ReadlineFile ==
    /\ rpc = "readline"
    /\ kind = "file"
    /\ FileLineReady
    /\ emptyRecvs' = emptyRecvs + (IF FileLine = <<>> THEN 1 ELSE 0)
    /\ HeaderRead(FileLine, Len(FileLine))

\* Line 209 on a socket (the connection recv_messages reads after its accept()
\* attempt): one pass of FileLikeSocket.readline's loop, char = sock.recv(1).
ReadlineSocket ==
    /\ rpc = "readline"
    /\ kind = "socket"
    /\ IF Unread # <<>>
          THEN LET char == Unread[1] IN
               IF char # "\n"
                  THEN /\ chars' = Append(chars, char)
                       /\ rpos' = rpos + 1
                       /\ UNCHANGED <<kind, wire, closed, sendVars, sentLog, ncorrupt, stdin_lock,
                                      rpc, in_digest, in_length, in_message, yielded, emptyRecvs>>
                  ELSE /\ HeaderRead(chars, 1)
                       /\ UNCHANGED emptyRecvs
          ELSE \* recv returns '' at the end of the stream: '' is not '\n', and is appended
               /\ closed
               /\ emptyRecvs < MaxSpin
               /\ emptyRecvs' = emptyRecvs + 1
               /\ UNCHANGED <<kind, wire, closed, sendVars, sentLog, ncorrupt, stdin_lock, rpc,
                              rpos, chars, in_digest, in_length, in_message, yielded>>

\* Line 214: in_message = stream.read(int(in_length)), then the lock is left.
ReadBody ==
    /\ rpc = "read"
    /\ \E n \in ReadSizes(in_length) :
         /\ in_message' = SubSeq(Unread, 1, n)
         /\ rpos' = rpos + n
    /\ stdin_lock' = FALSE
    /\ rpc' = "check"
    /\ UNCHANGED <<kind, wire, closed, sendVars, sentLog, ncorrupt,
                   chars, in_digest, in_length, yielded, emptyRecvs>>

\* Lines 218..222: yield the message if the digests agree, else log and continue.
CheckDigest ==
    /\ rpc = "check"
    /\ IF DigestMatches
          THEN IF LoadsRaises(in_message)
                  THEN rpc' = "raised" /\ UNCHANGED yielded
                  ELSE rpc' = "top" /\ yielded' = Append(yielded, loads(in_message))
          ELSE rpc' = "top" /\ UNCHANGED yielded
    /\ UNCHANGED <<kind, wire, closed, sendVars, sentLog, ncorrupt, stdin_lock,
                   rpos, chars, in_digest, in_length, in_message, emptyRecvs>>

(***************************************************************************)
(* utils.py: SingletonMixin, Configuration, balaio_config_from_env         *)
(***************************************************************************)

\* Bound: the number of loads made.
MaxLoads == 3

\* The configuration files there are.
Paths == {"a.ini", "b.ini"}

\* os.environ['BALAIO_SETTINGS_FILE']
SettingsFile == "a.ini"

\* key = (cls, args, tuple(kwargs.items())) of Configuration(fp): a file
\* object hashes and compares by identity.
Key(fp) == [cls |-> "Configuration", fp |-> fp]

\* key in cls._instances
Cached(fp) == \E e \in instances : e.key = Key(fp)

\* cls._instances[key]
CachedInstance(fp) == (CHOOSE e \in instances : e.key = Key(fp)).inst

CfgVarsInit ==
    /\ files = <<>>
    /\ instances = {}
    /\ ninst = 0
    /\ held = {}
    /\ loadLog = <<>>

\* No configuration is loaded.
CfgIdle ==
    /\ files = <<>>
    /\ instances = {}
    /\ ninst = 0
    /\ held = {}
    /\ loadLog = <<>>

\* SingletonMixin.__new__ for Configuration(fp), called through `via` to load
\* `filepath`: the cached instance of the key, or a new instance that is cached.
New(fp, filepath, via) ==
    LET inst == IF Cached(fp) THEN CachedInstance(fp) ELSE ninst + 1 IN
    /\ instances' = IF Cached(fp) THEN instances
                                  ELSE instances \cup {[key |-> Key(fp), inst |-> inst]}
    /\ ninst' = IF Cached(fp) THEN ninst ELSE ninst + 1
    /\ held' = held \cup {inst}
    /\ loadLog' = Append(loadLog, [via |-> via, path |-> filepath, fp |-> fp, inst |-> inst,
                               live |-> held])

\* Configuration.from_file(filepath): fp = open(filepath, 'rb'); cls(fp).
FromFile ==
    \E filepath \in Paths :
        /\ Len(loadLog) < MaxLoads
        /\ files' = Append(files, filepath)
        /\ New(Len(files) + 1, filepath, "from_file")

\* balaio_config_from_env(): Configuration.from_file(the path of the
\* environment variable).
FromEnv ==
    /\ Len(loadLog) < MaxLoads
    /\ files' = Append(files, SettingsFile)
    /\ New(Len(files) + 1, SettingsFile, "from_env")

\* Configuration(fp) on a file object the caller already has.
Construct ==
    \E fp \in 1..Len(files) :
        /\ Len(loadLog) < MaxLoads
        /\ New(fp, files[fp], "Configuration")
        /\ UNCHANGED files

\* The last reference to an instance goes away: the weak-value dictionary
\* drops its entry.
Release ==
    \E inst \in held :
        /\ held' = held \ {inst}
        /\ instances' = {e \in instances : e.inst # inst}
        /\ UNCHANGED <<files, ninst, loadLog>>

(***************************************************************************)
(* utils.py: validate_issn, calc_check_digit_issn, is_valid_issn           *)
(***************************************************************************)

\* Python values: None, a text (its characters), an integer, a boolean.
None == [t |-> "none", s |-> <<>>]

Text(s) == [t |-> "str", s |-> s]

Bool(b) == [t |-> "bool", s |-> IF b THEN <<"1">> ELSE <<>>]

\* An integer, as an input that is not text.
SomeInt == [t |-> "int", s |-> <<"7">>]

\* isinstance(v, basestring)
IsText(v) == v.t = "str"

\* Python's truth value of v: None, '' and False are false.
Truthy(v) == v.s # <<>>

\* How a call ends.
Pending == [st |-> "pending", exc |-> "none", msg |-> "none", val |-> <<>>]

Return(vals) == [st |-> "return", exc |-> "none", msg |-> "none", val |-> vals]

Raise(exc, msg) == [st |-> "raise", exc |-> exc, msg |-> msg, val |-> <<>>]

\* The length validate_issn asks for.
IssnLen == 9

\* issn.replace('-', '')
NoHyphens(s) == SelectSeq(s, LAMBDA c : c # "-")

\* lissn[:-1]
AllButLast(s) == SubSeq(s, 1, Len(s) - 1)

\* Mutant of Weight: the weights start at 9.
Weight_FromNine(i) == 9 - i

\* (8-i), for the position i of enumerate(), from 0.
Weight(i) == 8 - i

\* int(v) raises ValueError for some character v of lissn[:-1].
CheckDigitRaises(s) ==
    LET body == AllButLast(NoHyphens(s)) IN
    \E i \in 1..Len(body) : IntRaises(<<body[i]>>)

\* total after the first k characters of body.
RECURSIVE IssnTotal(_, _)
IssnTotal(body, k) ==
    IF k = 0 THEN 0 ELSE IssnTotal(body, k - 1) + Weight(k - 1) * int(<<body[k]>>)

\* calc_check_digit_issn(issn), when no int(v) raises.
calc_check_digit_issn(s) ==
    LET body == AllButLast(NoHyphens(s))
        remainder == IssnTotal(body, Len(body)) % 11
        check_digit == IF remainder = 0 THEN 0 ELSE 11 - remainder
    IN IF check_digit = 10 THEN <<"X">> ELSE str(check_digit)

\* validate_issn(issn)
validate_issn(v) ==
    IF ~IsText(v) THEN Raise("TypeError", "Invalid type")
    ELSE IF Len(v.s) # IssnLen THEN Raise("ValueError", "Invalid length")
    ELSE IF \A i \in 1..Len(v.s) : v.s[i] # "-" THEN Raise("ValueError", "Invalid format")
    ELSE IF CheckDigitRaises(v.s) THEN Raise("ValueError", "invalid literal for int()")
    ELSE IF calc_check_digit_issn(v.s) # <<v.s[Len(v.s)]>> THEN Raise("ValueError", "Invaid ISSN")
    ELSE Return(<<v>>)

\* is_valid_issn(issn): bool(validate_issn(issn)), False on ValueError and
\* TypeError, any other error propagates.
is_valid_issn(v) ==
    LET r == validate_issn(v) IN
    IF r.st = "return" THEN Return(<<Bool(Truthy(r.val[1]))>>)
    ELSE IF r.exc \in {"ValueError", "TypeError"} THEN Return(<<Bool(FALSE)>>)
    ELSE r

\* The characters of the texts tried: two digits, the hyphen, 'X'.
IssnChars == {"0", "1", "-", "X"}

\* Texts from the specification's examples: two of length 9, one without a
\* hyphen, one too short.
IssnSamples ==
    {<<"0", "1", "0", "2", "-", "6", "7", "2", "0">>,
     <<"0", "1", "0", "2", "-", "6", "7", "2", "1">>,
     <<"0", "1", "2", "3", "4", "5", "6", "7", "8">>,
     <<"1", "2", "3", "-", "4", "5">>}

\* Bound: the number of characters of a text tried that are not digits.
MaxSpecial == 2

\* The inputs tried: None, an integer, every text of IssnChars of the right
\* length with up to n hyphens and 'X's, anywhere, some texts that are one
\* shorter or longer, and the samples.
IssnInputs(n) ==
    {None, SomeInt}
    \cup {Text([i \in 1..IssnLen |-> IF i \in DOMAIN p THEN p[i] ELSE d[i]]) :
             d \in [1..IssnLen -> IssnChars \cap Digits],
             p \in UNION {[S -> IssnChars \ Digits] :
                             S \in {T \in SUBSET (1..IssnLen) : Cardinality(T) <= n}}}
    \cup {Text(s) : s \in [1..(IssnLen - 1) -> {"0", "-"}]}
    \cup {Text(s) : s \in [1..(IssnLen + 1) -> {"0", "-"}]}
    \cup {Text(s) : s \in IssnSamples}

IssnVarsInit ==
    /\ call \in [fn : {"validate_issn", "is_valid_issn"},
                  args : {<<v>> : v \in IssnInputs(MaxSpecial)}]
    /\ ret = Pending

\* No library function is called.
LibIdle ==
    /\ call = [fn |-> "none", args |-> <<>>]
    /\ ret = Pending

CallValidateIssn ==
    /\ call.fn = "validate_issn"
    /\ ret = Pending
    /\ ret' = validate_issn(call.args[1])
    /\ UNCHANGED call

CallIsValidIssn ==
    /\ call.fn = "is_valid_issn"
    /\ ret = Pending
    /\ ret' = is_valid_issn(call.args[1])
    /\ UNCHANGED call

(***************************************************************************)
(* utils.py: parse_issue_tag, supplement_type, issue_identification        *)
(***************************************************************************)

\* c.lower() for one character.
LowerChar(c) ==
    CASE c = "S" -> "s"
      [] c = "U" -> "u"
      [] c = "P" -> "p"
      [] c = "A" -> "a"
      [] OTHER -> c

\* s.lower()
lower(s) == [i \in 1..Len(s) |-> LowerChar(s[i])]

\* s.find(sub): the 0-based index of the first occurrence of sub, -1 if none.
find(s, sub) ==
    LET at == {i \in 0..(Len(s) - Len(sub)) : SubSeq(s, i + 1, i + Len(sub)) = sub} IN
    IF at = {} THEN -1 ELSE CHOOSE i \in at : \A j \in at : i <= j

\* s[a:b] and s[a:], for 0 <= a.
Slice(s, a, b) == SubSeq(s, a + 1, b)

SliceFrom(s, a) == SubSeq(s, a + 1, Len(s))

\* The marker looked for in the lowercased text.
sup == <<"s", "u", "p">>

\* '' becomes None.
NoneIfEmpty(s) == IF s = <<>> THEN None ELSE Text(s)

\* number = lower_issue[0:lower_issue.find('sup')].strip()
NumberPart(content, lower_issue) ==
    strip(Slice(lower_issue, 0, find(lower_issue, sup)))

\* parse_issue_tag(issue_tag_content): (number, suppl_label, suppl)
parse_issue_tag(v) ==
    IF ~Truthy(v) THEN <<None, None, None>>
    ELSE LET content == v.s
             lower_issue == lower(content)
         IN IF find(lower_issue, sup) >= 0
            THEN LET number == NumberPart(content, lower_issue)
                     label0 == SliceFrom(content, find(lower_issue, sup))
                     suppl_label == IF find(label0, <<" ">>) >= 0
                                       THEN Slice(label0, 0, find(label0, <<" ">>))
                                       ELSE label0
                     suppl == strip(SliceFrom(content,
                                              find(content, suppl_label) + Len(suppl_label)))
                 IN <<NoneIfEmpty(number), Text(suppl_label), NoneIfEmpty(suppl)>>
            ELSE <<v, None, None>>

\* Mutant of supplement_type: the two levels are exchanged.
supplement_type_Swapped(volume, number, suppl) ==
    IF Truthy(number) THEN <<suppl, None>> ELSE <<None, suppl>>

\* supplement_type(volume, number, suppl): (issue_suppl_volume, issue_suppl_number)
supplement_type(volume, number, suppl) ==
    IF Truthy(number) THEN <<None, suppl>> ELSE <<suppl, None>>

\* Mutant of lstrip0: every zero is removed, not only the leading ones.
lstrip0_AllZeros(s) == SelectSeq(s, LAMBDA c : c # "0")

\* s.lstrip('0')
RECURSIVE lstrip0(_)
lstrip0(s) == IF s # <<>> /\ s[1] = "0" THEN lstrip0(Tail(s)) ELSE s

\* issue_identification(volume, number, supplement):
\* (volume, volume_suppl, number, number_suppl)
issue_identification(volume, number, supplement) ==
    LET parsed == parse_issue_tag(number)
        label == parsed[2]
        suppl == IF Truthy(label) /\ ~Truthy(parsed[3]) THEN label ELSE supplement
        st == supplement_type(volume, parsed[1], suppl)
    IN <<IF volume # None THEN Text(lstrip0(volume.s)) ELSE None,
         st[1],
         IF parsed[1] # None THEN Text(lstrip0(parsed[1].s)) ELSE None,
         st[2]>>

\* Bounds: the lengths of the text before and after the marker.
MaxPre == 2

MaxPost == 3

\* The texts of up to n characters of `alphabet`.
Strs(alphabet, n) == UNION {[1..k -> alphabet] : k \in 0..n}

\* The markers tried: none, a partial one, and two spellings.
Markers == {<<>>, <<"S", "u">>, <<"S", "u", "p">>, <<"s", "U", "P">>}

\* The <issue> contents of the source's comment: 2, Suppl, 3 Suppl 1, Suppl 1.
TagSamples ==
    {<<"2">>, <<"S", "u", "p", "p", "l">>,
     <<"3", " ", "S", "u", "p", "p", "l", " ", "1">>,
     <<"S", "u", "p", "p", "l", " ", "1">>}

\* The issue tag contents tried: up to n characters, a marker, up to m
\* characters; and the samples.
TagTexts(n, m) ==
    {pre \o mk \o post : pre \in Strs({" ", "0", "A"}, n), mk \in Markers,
                         post \in Strs({" ", "A", "p"}, m)}
    \cup TagSamples

TagInputs(n, m) == {None} \cup {Text(s) : s \in TagTexts(n, m)}

Volumes == {None, Text(<<>>), Text(<<"0", "1", "0">>)}

Supplements == {None, Text(<<>>), Text(<<"1">>)}

IssueVarsInit ==
    /\ call \in [fn : {"parse_issue_tag"},
                  args : {<<v>> : v \in TagInputs(MaxPre, MaxPost)}]
          \cup [fn : {"supplement_type"},
                args : {<<v, n, s>> : v \in Volumes,
                                      n \in {None, Text(<<>>), Text(<<"0">>), Text(<<"2">>)},
                                      s \in Supplements \cup {Text(<<"S", "u", "p">>)}}]
          \cup [fn : {"issue_identification"},
                args : {<<Text(<<"0", "1", "0">>), n, s>> :
                            n \in TagInputs(MaxPre, MaxPost), s \in {None, Text(<<"1">>)}}
                       \cup {<<v, Text(n), s>> : v \in Volumes, n \in TagSamples,
                                                 s \in Supplements}]
    /\ ret = Pending

CallParseIssueTag ==
    /\ call.fn = "parse_issue_tag"
    /\ ret = Pending
    /\ ret' = Return(parse_issue_tag(call.args[1]))
    /\ UNCHANGED call

CallSupplementType ==
    /\ call.fn = "supplement_type"
    /\ ret = Pending
    /\ ret' = Return(supplement_type(call.args[1], call.args[2], call.args[3]))
    /\ UNCHANGED call

CallIssueIdentification ==
    /\ call.fn = "issue_identification"
    /\ ret = Pending
    /\ ret' = Return(issue_identification(call.args[1], call.args[2], call.args[3]))
    /\ UNCHANGED call

(***************************************************************************)
(* checkout.py: get_static, upload_static_files, upload_meta_front         *)
(***************************************************************************)

\* Bound: the number of entries in a package archive.
MaxEntries == 3

\* A file name, as its parts.
FileName(base, ext) == <<base, ext>>

FILES_EXTENSION == <<"xml", "pdf">>

IMAGES_EXTENSION == <<"tif", "eps">>

NAME_ZIP_FILE == FileName("images", "zip")

STATIC_PATH == "articles"

\* The extensions an archive entry may have; "txt" is one checkout does not
\* recognise.
Extensions == {"xml", "pdf", "tif", "eps", "txt"}

\* The i-th entry of an archive: its name holds its position, so no two
\* entries of a package share a name; read() gives its content.
Entry(i, ext) ==
    [name |-> FileName(ToString(i), ext), ext |-> ext, content |-> <<"bytes", i>>]

\* The package archives of at most n entries.
Packages(n) ==
    UNION {{[i \in 1..k |-> Entry(i, exts[i])] : exts \in [1..k -> Extensions]} : k \in 0..n}

\* attempt.articlepkg.aid
Aid == "aid"

\* PackageAnalyzer(attempt.filepath).get_fps(ext): the entries of the archive
\* with that extension, in archive order.
get_static(pkg, ext) == SelectSeq(pkg, LAMBDA e : e.ext = ext)

\* The entries `for ext in exts: for static_file in get_static(attempt, ext)`
\* visits, in order.
RECURSIVE Visited(_, _)
Visited(pkg, exts) ==
    IF exts = <<>> THEN <<>>
    ELSE get_static(pkg, Head(exts)) \o Visited(pkg, Tail(exts))

\* utils.get_static_path(STATIC_PATH, aid, filename): the destination keyed
\* by the three parts.
get_static_path(root, aid, filename) == <<root, aid, filename>>

\* dict_img after lines 73..75: the content of every image entry, by name.
DictImg(pkg) ==
    LET imgs == Visited(pkg, IMAGES_EXTENSION)
    IN [n \in {imgs[i].name : i \in 1..Len(imgs)} |->
            (CHOOSE e \in {imgs[i] : i \in 1..Len(imgs)} : e.name = n).content]

\* utils.zip_files(dict_img): one archive holding the named contents.
zip_files(dict_img) == [zip |-> dict_img]

\* The calls of static.send upload_static_files makes if none raises, in
\* order, each with the key its URI is stored under.
Sends(pkg) ==
    LET fs == Visited(pkg, FILES_EXTENSION)
    IN [k \in 1..Len(fs) |->
            [content |-> fs[k].content,
             dest |-> get_static_path(STATIC_PATH, Aid, fs[k].name),
             key |-> fs[k].ext]]
       \o <<[content |-> zip_files(DictImg(pkg)),
             dest |-> get_static_path(STATIC_PATH, Aid, NAME_ZIP_FILE),
             key |-> "img"]>>

\* static.send(content, dest) returning: the URI the backend gives that
\* destination.
send(content, dest) == [uri |-> dest]

\* uri_dict after the first m calls of static.send: uri_dict[key] = uri.
RECURSIVE UriDictAfter(_, _)
UriDictAfter(sends, m) ==
    IF m = 0 THEN <<>>
    ELSE LET d == UriDictAfter(sends, m - 1)
             s == sends[m]
         IN [k \in DOMAIN d \cup {s.key} |->
                IF k = s.key THEN send(s.content, s.dest) ELSE d[k]]

\* upload_static_files(attempt, conn_static) on a package whose failAt-th
\* static.send raises (0: none does): the error leaves the function, else
\* uri_dict is returned.
upload_static_files(pkg, failAt) ==
    IF failAt \in 1..Len(Sends(pkg))
       THEN Raise("Exception", "send")
       ELSE Return(<<UriDictAfter(Sends(pkg), Len(Sends(pkg)))>>)

\* How the calls upload_meta_front makes besides reading uri_dict end.
MetaOutcomes == {"ok", "front", "post"}

\* uri_dict[key] of lines 102..104 raises KeyError.
KeyMissing(uri_dict, key) == key \notin DOMAIN uri_dict

\* upload_meta_front(attempt, client, uri_dict): the data is built in the
\* order written (front, xml_url, pdf_url, images_url), then posted.
upload_meta_front(uri_dict, outcome) ==
    IF outcome = "front" THEN Raise("Exception", "front")
    ELSE IF KeyMissing(uri_dict, "xml") THEN Raise("KeyError", "xml")
    ELSE IF KeyMissing(uri_dict, "pdf") THEN Raise("KeyError", "pdf")
    ELSE IF KeyMissing(uri_dict, "img") THEN Raise("KeyError", "img")
    ELSE IF outcome = "post" THEN Raise("Exception", "post")
    ELSE Return(<<[xml_url |-> uri_dict["xml"], pdf_url |-> uri_dict["pdf"],
                   images_url |-> uri_dict["img"]]>>)

\* One attempt's package, and how the calls to the backend and the API end.
UploadInputs(n) ==
    UNION {{<<pkg, failAt, outcome>> : failAt \in 0..Len(Sends(pkg)), outcome \in MetaOutcomes}
           : pkg \in Packages(n)}

UploadVarsInit ==
    /\ call \in [fn : {"upload_static_files"}, args : UploadInputs(MaxEntries)]
    /\ ret = Pending

\* Line 123: uri_dict = upload_static_files(attempt, conn)
CallUploadStaticFiles ==
    /\ call.fn = "upload_static_files"
    /\ ret = Pending
    /\ ret' = upload_static_files(call.args[1], call.args[2])
    /\ UNCHANGED call

\* Line 125: upload_meta_front(attempt, client, uri_dict), reached when
\* upload_static_files returned.
CallUploadMetaFront ==
    /\ call.fn = "upload_static_files"
    /\ ret.st = "return"
    /\ call' = [fn |-> "upload_meta_front", args |-> <<call.args[1], ret.val[1], call.args[3]>>]
    /\ ret' = upload_meta_front(ret.val[1], call.args[3])

(***************************************************************************)
(* vpipes.py: attempt_is_valid, ValidationPipe.transform                   *)
(***************************************************************************)

\* Bound: the number of items fed to the pipe.
MaxItems == 3

\* An item is a 4-tuple (attempt, package analyzer, package, session) or a
\* bare attempt; Attempt.is_valid is a nullable boolean.
ItemKinds == [shape : {"tuple4", "bare"}, is_valid : {"True", "False", "None"}]

\* What validate() can do: return a (status, description) pair, or raise
\* (the base class raises NotImplementedError).
ValidateOutcomes == {"ok", "error", "raise"}

\* What the notifier's tell() can do: record and return, raise before
\* recording anything, or raise after having recorded part of the notice.
TellOutcomes == {"ok", "raise", "partial_raise"}

\* Mutant of attempt_is_valid: an is_valid of None passes.
attempt_is_valid_OnlyFalse(it) == it.is_valid = "False"

\* attempt_is_valid(data) raises UnmetPrecondition: the attempt is data[0] of
\* a 4-tuple, or data itself when unpacking raises TypeError.
attempt_is_valid(it) == it.is_valid # "True"

\* item[0] and item[3] of transform(): a bare attempt cannot be indexed.
Subscriptable(it) == it.shape = "tuple4"

\* The state transform() reaches after its precondition held, for the outcome
\* v of validate(): an error of item[0], item[3] or validate() propagates.
BodyOutcome(it, v) ==
    IF Subscriptable(it) /\ v # "raise" THEN "Validated" ELSE "Raised"

\* The notices in the session after tell() acted with outcome t.
tell(s, notice, t) ==
    CASE t = "ok" -> Append(s, notice)
      [] t = "partial_raise" -> Append(s, [notice EXCEPT !.status = "partial"])
      [] t = "raise" -> s

\* Mutant of AfterTellRaised: the savepoint is not rolled back.
AfterTellRaised_NoRollback(savepoint, told) == told

\* except Exception: savepoint.rollback() restores the session to the
\* savepoint.
AfterTellRaised(savepoint, told) == savepoint

\* Mutant of RecordOutcome: an error of tell() is swallowed.
RecordOutcome_AlwaysNotified(t) == "Notified"

\* try/except of transform(): return item, or re-raise.
RecordOutcome(t) == IF t = "ok" THEN "Notified" ELSE "Aborted"

\* The pipe feeds the next item when transform() returned, and stops when it
\* raised.
Continues(state) == state \in {"Skipped", "Notified"}

NoCount == [i \in 1..MaxItems |-> 0]

PipeVarsInit ==
    /\ items \in UNION {[1..n -> ItemKinds] : n \in 1..MaxItems}
    /\ pos = 1
    /\ vpc = "Gated"
    /\ result = "none"
    /\ session = <<>>
    /\ path = <<<<"Gated">>>>
    /\ returned = <<>>
    /\ atEntry = <<<<>>>>
    /\ nvalidate = NoCount
    /\ nsavepoint = NoCount
    /\ nrollback = NoCount
    /\ tellRaised = [i \in 1..MaxItems |-> FALSE]

\* The pipe is not running.
PipeIdle ==
    /\ items = <<>>
    /\ pos = 1
    /\ vpc = "stopped"
    /\ result = "none"
    /\ session = <<>>
    /\ path = <<>>
    /\ returned = <<>>
    /\ atEntry = <<>>
    /\ nvalidate = NoCount
    /\ nsavepoint = NoCount
    /\ nrollback = NoCount
    /\ tellRaised = [i \in 1..MaxItems |-> FALSE]

\* The execution of the current item ends in `state`, returning or raising; the
\* pipe then feeds the next item, if transform() returned and there is one.
EndExecution(state, sess) ==
    /\ returned' = Append(returned, [how |-> IF Continues(state) THEN "return" ELSE "raise",
                                     item |-> items[pos]])
    /\ IF Continues(state) /\ pos < Len(items)
          THEN /\ pos' = pos + 1
               /\ vpc' = "Gated"
               /\ path' = Append([path EXCEPT ![pos] = Append(@, state)], <<"Gated">>)
               /\ atEntry' = Append(atEntry, sess)
          ELSE /\ vpc' = "stopped"
               /\ path' = [path EXCEPT ![pos] = Append(@, state)]
               /\ UNCHANGED <<pos, atEntry>>

\* The decorated transform(item) up to the return of validate(): the
\* precondition; on UnmetPrecondition the item is returned as it is; else
\* attempt = item[0], db_session = item[3], validate(item).
Gate ==
    /\ vpc = "Gated"
    /\ LET it == items[pos] IN
       IF attempt_is_valid(it)
       THEN /\ EndExecution("Skipped", session)
            /\ UNCHANGED <<result, nvalidate>>
       ELSE \E v \in ValidateOutcomes :
            /\ nvalidate' = IF Subscriptable(it) THEN [nvalidate EXCEPT ![pos] = @ + 1]
                                                 ELSE nvalidate
            /\ IF BodyOutcome(it, v) = "Validated"
                  THEN /\ vpc' = "Validated"
                       /\ result' = v
                       /\ path' = [path EXCEPT ![pos] = Append(@, "Validated")]
                       /\ UNCHANGED <<pos, returned, atEntry>>
                  ELSE /\ EndExecution("Raised", session)
                       /\ UNCHANGED result
    /\ UNCHANGED <<items, session, nsavepoint, nrollback, tellRaised>>

\* The rest of transform(): the savepoint, the notifier's tell(), and on an
\* error the rollback and the re-raise; else return item.
Record ==
    /\ vpc = "Validated"
    /\ \E t \in TellOutcomes :
       LET savepoint == session
           told == tell(session, [item |-> pos, status |-> result], t)
           after == IF t = "ok" THEN told ELSE AfterTellRaised(savepoint, told)
       IN /\ nsavepoint' = [nsavepoint EXCEPT ![pos] = @ + 1]
          /\ tellRaised' = [tellRaised EXCEPT ![pos] = (t # "ok")]
          /\ nrollback' = IF t = "ok" THEN nrollback ELSE [nrollback EXCEPT ![pos] = @ + 1]
          /\ session' = after
          /\ EndExecution(RecordOutcome(t), after)
    /\ result' = "none"
    /\ UNCHANGED <<items, nvalidate>>

\* The subsystems added after the first three are not running.
ExtIdle == PipeIdle /\ SvIdle /\ CfgIdle /\ LibIdle

(***************************************************************************)
(* Specifications                                                          *)
(***************************************************************************)

InitMsg == MsgVarsInit /\ TermIdle /\ CoIdle /\ ExtIdle

NextMsg ==
    \/ \E t \in Senders : SendHeader(t) /\ UNCHANGED <<termVars, coVars, extVars>>
    \/ \E t \in Senders : SendBody(t) /\ UNCHANGED <<termVars, coVars, extVars>>
    \/ CloseStream /\ UNCHANGED <<termVars, coVars, extVars>>
    \/ CorruptBody /\ UNCHANGED <<termVars, coVars, extVars>>
    \/ RecvEnter /\ UNCHANGED <<termVars, coVars, extVars>>
    \/ ReadlineFile /\ UNCHANGED <<termVars, coVars, extVars>>
    \/ ReadlineSocket /\ UNCHANGED <<termVars, coVars, extVars>>
    \/ ReadBody /\ UNCHANGED <<termVars, coVars, extVars>>
    \/ CheckDigest /\ UNCHANGED <<termVars, coVars, extVars>>

SpecMsg == InitMsg /\ [][NextMsg]_vars

InitCheckout == CoVarsInit /\ TermIdle /\ MsgIdle /\ ExtIdle

NextCheckout ==
    \/ QueryAndDispatch /\ UNCHANGED <<termVars, msgVars, extVars>>
    \/ QueryNothing /\ UNCHANGED <<termVars, msgVars, extVars>>
    \/ \E a \in Attempts : CheckoutStep(a) /\ UNCHANGED <<termVars, msgVars, extVars>>
    \/ MapReturnCommit /\ UNCHANGED <<termVars, msgVars, extVars>>
    \/ ExceptAbortRaise /\ UNCHANGED <<termVars, msgVars, extVars>>
    \/ SleepThenLoop /\ UNCHANGED <<termVars, msgVars, extVars>>

SpecCheckout == InitCheckout /\ [][NextCheckout]_vars

InitTerminate == TermVarsInit /\ CoIdle /\ MsgIdle /\ ExtIdle

NextTerminate ==
    \/ TermRequest /\ UNCHANGED <<coVars, msgVars, extVars>>
    \/ Poll /\ UNCHANGED <<coVars, msgVars, extVars>>
    \/ Kill /\ UNCHANGED <<coVars, msgVars, extVars>>
    \/ TermReturn /\ UNCHANGED <<coVars, msgVars, extVars>>
    \/ ChildExit /\ UNCHANGED <<coVars, msgVars, extVars>>

SpecTerminate == InitTerminate /\ [][NextTerminate]_vars

\* terminate() runs on the supervisor's only thread and never blocks for
\* longer than a sleep: its next step is always eventually taken.
SpecTerminateFair == SpecTerminate /\ WF_vars(TerminateStep)

InitPipe == PipeVarsInit /\ TermIdle /\ CoIdle /\ MsgIdle /\ SvIdle /\ CfgIdle /\ LibIdle

NextPipe ==
    \/ Gate /\ UNCHANGED <<termVars, coVars, msgVars, svVars, cfgVars, libVars>>
    \/ Record /\ UNCHANGED <<termVars, coVars, msgVars, svVars, cfgVars, libVars>>

SpecPipe == InitPipe /\ [][NextPipe]_vars

InitSupervisor ==
    SvVarsInit /\ TermIdle /\ CoIdle /\ MsgIdle /\ PipeIdle /\ CfgIdle /\ LibIdle

NextSupervisor ==
    \/ RunMonitor /\ UNCHANGED <<coVars, msgVars, pipeVars, cfgVars, libVars>>
    \/ RunValidator /\ UNCHANGED <<coVars, msgVars, pipeVars, cfgVars, libVars>>
    \/ Register /\ UNCHANGED <<coVars, msgVars, pipeVars, cfgVars, libVars>>
    \/ KeyboardInterrupt /\ UNCHANGED <<coVars, msgVars, pipeVars, cfgVars, libVars>>
    \/ AtExitCall /\ UNCHANGED <<coVars, msgVars, pipeVars, cfgVars, libVars>>
    \/ TermRequest /\ UNCHANGED <<coVars, msgVars, extVars>>
    \/ Poll /\ UNCHANGED <<coVars, msgVars, extVars>>
    \/ Kill /\ UNCHANGED <<coVars, msgVars, extVars>>
    \/ TermReturn /\ UNCHANGED <<coVars, msgVars, extVars>>
    \/ ProcessExit /\ UNCHANGED <<coVars, msgVars, pipeVars, cfgVars, libVars>>
    \/ LaunchedChildExit /\ UNCHANGED <<coVars, msgVars, pipeVars, cfgVars, libVars>>

SpecSupervisor == InitSupervisor /\ [][NextSupervisor]_vars

InitConfig == CfgVarsInit /\ TermIdle /\ CoIdle /\ MsgIdle /\ PipeIdle /\ SvIdle /\ LibIdle

NextConfig ==
    \/ FromFile /\ UNCHANGED <<termVars, coVars, msgVars, pipeVars, svVars, libVars>>
    \/ FromEnv /\ UNCHANGED <<termVars, coVars, msgVars, pipeVars, svVars, libVars>>
    \/ Construct /\ UNCHANGED <<termVars, coVars, msgVars, pipeVars, svVars, libVars>>
    \/ Release /\ UNCHANGED <<termVars, coVars, msgVars, pipeVars, svVars, libVars>>

SpecConfig == InitConfig /\ [][NextConfig]_vars

InitIssn == IssnVarsInit /\ TermIdle /\ CoIdle /\ MsgIdle /\ PipeIdle /\ SvIdle /\ CfgIdle

NextIssn ==
    \/ CallValidateIssn /\ UNCHANGED <<termVars, coVars, msgVars, pipeVars, svVars, cfgVars>>
    \/ CallIsValidIssn /\ UNCHANGED <<termVars, coVars, msgVars, pipeVars, svVars, cfgVars>>

SpecIssn == InitIssn /\ [][NextIssn]_vars

InitIssue == IssueVarsInit /\ TermIdle /\ CoIdle /\ MsgIdle /\ PipeIdle /\ SvIdle /\ CfgIdle

NextIssue ==
    \/ CallParseIssueTag
          /\ UNCHANGED <<termVars, coVars, msgVars, pipeVars, svVars, cfgVars>>
    \/ CallSupplementType
          /\ UNCHANGED <<termVars, coVars, msgVars, pipeVars, svVars, cfgVars>>
    \/ CallIssueIdentification
          /\ UNCHANGED <<termVars, coVars, msgVars, pipeVars, svVars, cfgVars>>

SpecIssue == InitIssue /\ [][NextIssue]_vars

InitUpload == UploadVarsInit /\ TermIdle /\ CoIdle /\ MsgIdle /\ PipeIdle /\ SvIdle /\ CfgIdle

NextUpload ==
    \/ CallUploadStaticFiles
          /\ UNCHANGED <<termVars, coVars, msgVars, pipeVars, svVars, cfgVars>>
    \/ CallUploadMetaFront
          /\ UNCHANGED <<termVars, coVars, msgVars, pipeVars, svVars, cfgVars>>

SpecUpload == InitUpload /\ [][NextUpload]_vars

(***************************************************************************)
(* Claims about the checkout run loop                                      *)
(***************************************************************************)

\* C4: when the checkout of an attempt of the batch raises, the batch is never
\* committed (no attempt's row changes in the datastore), the unit of work is
\* aborted, and the error leaves the run loop, which makes no further pass.
C4_BatchAbortedOnRaise ==
    /\ [](MapRaises =>
            /\ cpc \in {"map", "raised"}
            /\ iter \notin committed
            /\ \A a \in Attempts : InBatch(a) => db[a] = dbAtQuery[a])
    /\ [](cpc = "raised" => mem = db)
    /\ [][cpc = "raised" => (cpc' = "raised" /\ iter' = iter /\ db' = db)]_vars

\* One attempt of a batch raised after another completed, and main() was left.
C4_Witness ==
    /\ cpc = "raised"
    /\ \E a, b \in Attempts :
          /\ InBatch(a) /\ task[a].st = "failed"
          /\ InBatch(b) /\ task[b].st = "done"
          /\ db[b].checkout_started_at # Now

\* C5: every attempt of the enqueue list has queued_checkout = true from the
\* moment it is enqueued until its checkout clears the flag.
C5_EnqueuedIsMarked ==
    \A a \in Attempts :
        (cpc = "map" /\ InBatch(a) /\ task[a].st = "run") => mem[a].queued_checkout

\* C6: a checkout executes started_at, static upload, metadata upload, clear
\* in that order; a statement that raises is the last one executed and the
\* call fails; the flag is cleared only after both uploads returned.
C6_CheckoutOrder ==
    \A a \in Attempts :
        LET log == steps[a]
            Order == <<"started_at", "static", "meta", "clear">>
        IN /\ Len(log) <= Len(Order)
           /\ \A k \in 1..Len(log) :
                 /\ log[k].op = Order[k]
                 /\ k < Len(log) => log[k].ok
           /\ (task[a].st = "failed") <=> (Len(log) > 0 /\ ~log[Len(log)].ok)
           /\ (task[a].st = "done") => (Len(log) = 4 /\ log[4].ok)
           /\ (cpc = "map" /\ InBatch(a) /\ dbAtQuery[a].queued_checkout
                  /\ ~mem[a].queued_checkout)
                => (Len(log) = 4 /\ log[2].ok /\ log[3].ok)

\* One checkout ran to the end and cleared a set flag; another stopped at a
\* failed metadata upload with its flag still set.
C6_Witness ==
    \E a, b \in Attempts :
        /\ task[a].st = "done" /\ dbAtQuery[a].queued_checkout /\ ~mem[a].queued_checkout
        /\ task[b].st = "failed" /\ Len(steps[b]) = 3 /\ mem[b].queued_checkout

\* The checkout of attempt a ran every statement of checkout_procedure and
\* none raised.
CompletedWithoutError(a) ==
    /\ task[a].st = "done"
    /\ Len(steps[a]) = Len(checkout_procedure)
    /\ \A k \in 1..Len(steps[a]) : steps[a][k].ok

\* C20: the batch is committed only after the checkout procedure of every
\* attempt dispatched in it has completed without error, so never while one
\* of them is still being checked out; a pass that finds no eligible attempt
\* neither commits nor aborts.
C20_CommitAfterWholeBatch ==
    [][/\ committed' # committed =>
             /\ committed' = committed \cup {iter}
             /\ cpc = "map"
             /\ checkout_lst # <<>>
             /\ \A a \in Attempts : InBatch(a) => CompletedWithoutError(a)
       /\ (cpc = "query" /\ attempts_checkout = <<>>) =>
             /\ cpc' = "sleep"
             /\ committed' = committed
             /\ db' = db
             /\ mem' = mem
       /\ (cpc' = "raised" /\ cpc # "raised") => checkout_lst # <<>>]_vars

\* Reached: a batch of more than one attempt has been committed.
C20_Witness ==
    /\ iter \in committed
    /\ Len(checkout_lst) > 1
    /\ \A a \in Attempts : InBatch(a) => CompletedWithoutError(a)

\* The checkout of attempt a was committed in a pass before the current one:
\* its row in the datastore holds the start time of that pass, which only the
\* commit of that pass writes.
CommittedBefore(a) ==
    \E i \in committed : i < iter /\ db[a].checkout_started_at = i

\* C23: an attempt whose checkout completed and was committed in one pass of
\* the run loop is not selected and checked out again in a later pass: it is
\* not in a later batch with its checkout procedure run through once more.
C23_CommittedNotSelectedAgain ==
    \A a \in Attempts :
        (CommittedBefore(a) /\ cpc # "query") =>
            ~(InBatch(a) /\ CompletedWithoutError(a))

(***************************************************************************)
(* Claims about the framed messaging protocol                              *)
(***************************************************************************)

IsPrefix(a, b) == Len(a) <= Len(b) /\ a = SubSeq(b, 1, Len(a))

\* The messages sent, in the order of their frames on the stream.
SentMsgs == [j \in 1..Len(sentLog) |-> sentLog[j].msg]

\* The messages of the frames that were not corrupted, in order.
RECURSIVE IntactUpTo(_)
IntactUpTo(n) ==
    IF n = 0 THEN <<>>
    ELSE IF sentLog[n].corrupted THEN IntactUpTo(n - 1)
         ELSE Append(IntactUpTo(n - 1), sentLog[n].msg)

IntactMsgs == IntactUpTo(Len(sentLog))

\* Frame j was corrupted in its body, and the digest of the body as it is in
\* transit differs from the digest in its header.
DigestBroken(j) ==
    sentLog[j].corrupted /\ digest(sentLog[j].body) # SubSeq(sentLog[j].header, 1, 1)

\* Every frame written is whole and the receiver has consumed all of them.
AllConsumed ==
    /\ \A t \in Senders : spc[t] # "body"
    /\ rpos = Len(wire)
    /\ rpc \in {"top", "readline", "stopped"}
    /\ chars = <<>>

\* The receiver's every read returns exactly the bytes asked for.
ExactReads == kind = "file"

\* C7: a frame whose body was corrupted in transit (digest mismatch) is never
\* yielded, the stream is not torn down, and the uncorrupted frames that follow
\* it are still yielded.
C7_CorruptFrameSkipped ==
    ((\E j \in 1..Len(sentLog) : sentLog[j].corrupted)
        /\ \A j \in 1..Len(sentLog) : sentLog[j].corrupted => DigestBroken(j))
    => /\ rpc # "raised"
       /\ IsPrefix(yielded, IntactMsgs)
       /\ AllConsumed => yielded = IntactMsgs

\* C7 where every read is exact (file-like streams).
C7_OnExactReads == ExactReads => C7_CorruptFrameSkipped

\* C8: over a stream that corrupts nothing, the receiver yields exactly the
\* messages sent, each equal to the original, in the order sent.
C8_RoundTrip ==
    ncorrupt = 0
    => /\ rpc # "raised"
       /\ IsPrefix(yielded, SentMsgs)
       /\ AllConsumed => yielded = SentMsgs

\* C8 where every read is exact (file-like streams).
C8_OnExactReads == ExactReads => C8_RoundTrip

\* Where frame j starts if the frames before it are whole and back to back.
RECURSIVE FrameStart(_)
FrameStart(j) ==
    IF j = 1 THEN 1
    ELSE FrameStart(j - 1) + Len(sentLog[j - 1].header) + Len(sentLog[j - 1].body)

\* C9: with threads sending concurrently, the bytes on the stream are whole
\* frames back to back: each header is followed at once by its own body, and
\* only the frame being written may still lack its body.
C9_FramesNotInterleaved ==
    \A j \in 1..Len(sentLog) :
        LET f == sentLog[j]
            s == FrameStart(j)
        IN /\ f.header = Header(dumps(f.msg))
           /\ SubSeq(wire, s, s + Len(f.header) - 1) = f.header
           /\ IF f.at = 0
                 THEN j = Len(sentLog) /\ Len(wire) = s + Len(f.header) - 1
                 ELSE /\ f.at = s + Len(f.header)
                      /\ SubSeq(wire, f.at, f.at + Len(f.body) - 1) = f.body
                      /\ ~f.corrupted => f.body = dumps(f.msg)
           /\ j = Len(sentLog) => Len(wire) = s + Len(f.header) + Len(f.body) - 1

\* One thread has written a whole frame, a second is between its header and
\* its body, holding the lock.
C9_Witness ==
    \E t, u \in Senders :
        /\ spc[t] = "done" /\ spc[u] = "body" /\ stdout_lock = u
        /\ Len(sentLog) = 2 /\ sentLog[1].by = t

\* C10: once a read of the header has returned empty because the transport is
\* closed and exhausted, recv_messages has stopped and has left the read lock.
C10_EndOfStreamStops ==
    emptyRecvs > 0 => (rpc = "stopped" /\ ~stdin_lock)

\* C10 on file-like streams, where readline() returns '' at the end.
C10_OnFileStreams == kind = "file" => C10_EndOfStreamStops

\* C22: the read of a frame's body returns exactly the number of bytes the
\* header announced, on file and on socket streams alike, and leaves the
\* read position at the first byte after the body, where the next header is
\* read from.
C22_BodyReadWhole ==
    [][(rpc = "read" /\ rpc' = "check") =>
          /\ Len(in_message') = in_length
          /\ rpos' = rpos + in_length]_vars

\* The same on streams whose reads return all the bytes asked for, where it
\* holds.
C22_OnExactReads ==
    [][(ExactReads /\ rpc = "read" /\ rpc' = "check") =>
          /\ Len(in_message') = in_length
          /\ rpos' = rpos + in_length]_vars

(***************************************************************************)
(* Claims about terminate(procs)                                           *)
(***************************************************************************)

\* C1: a child that a poll of its grace window found exited (with any exit
\* status, 0 included) is never force-killed.
C1_ExitedChildNeverKilled ==
    \A c \in Children : sawExit[c] => ~killed[c]

\* C2: a child that never exits after its terminate request is polled exactly
\* 10 times and is then force-killed (no child is killed after fewer polls),
\* and terminate() finishes, whatever the children do.
C2_GraceThenKillAndReturn ==
    /\ [](\A c \in Children :
            /\ (handled[c] /\ ~sawExit[c]) => (killed[c] /\ polls[c] = GraceTries)
            /\ killed[c] => polls[c] = GraceTries)
    /\ <>(tpc = "done")

\* A child that never exited was polled 10 times and killed, and terminate() returned.
C2_Witness ==
    /\ tpc = "done"
    /\ \E c \in Children : killed[c] /\ ~sawExit[c] /\ polls[c] = GraceTries

\* C3: terminate requests go out in reverse start order (the validator, started
\* second, before the monitor), each only after the handling of the child
\* before it has finished.
C3_ReverseOrderOneAtATime ==
    /\ Len(termOrder) <= Len(procs)
    /\ \A k \in 1..Len(termOrder) :
            /\ termOrder[k] = procs[Len(procs) - k + 1]
            /\ k > 1 => handled[termOrder[k - 1]]

\* Both children of main() were asked to terminate: the validator (2) then the monitor (1).
C3_Witness ==
    /\ Len(procs) = 2
    /\ termOrder = <<2, 1>>
    /\ handled[2] /\ ~handled[1]

(***************************************************************************)
(* Claims about the validation pipe                                        *)
(***************************************************************************)

\* The executions of transform() that have ended.
Ended == 1..Len(returned)

\* The notices of the session that execution i recorded.
NoticesOf(i) == {k \in 1..Len(session) : session[k].item = i}

\* C11: for every item, a bare attempt or a 4-tuple, whose attempt's is_valid
\* is not exactly true, transform() returns the item unchanged, validate() is
\* never called for it, no savepoint is opened and no notification is
\* recorded.
C11_InvalidItemSkipped ==
    \A i \in Ended :
        items[i].is_valid # "True" =>
            /\ returned[i] = [how |-> "return", item |-> items[i]]
            /\ nvalidate[i] = 0
            /\ nsavepoint[i] = 0
            /\ NoticesOf(i) = {}

\* Reached: a bare attempt with is_valid None and a 4-tuple with is_valid False
\* have both been through transform(), after an item that was notified.
C11_Witness ==
    /\ \E i \in Ended : items[i] = [shape |-> "bare", is_valid |-> "None"]
    /\ \E i \in Ended : items[i] = [shape |-> "tuple4", is_valid |-> "False"]
    /\ \E i \in Ended : NoticesOf(i) # {}

\* C12: when the notifier's tell() raises, the savepoint opened for the item
\* is rolled back and the error is re-raised, and the notices recorded before
\* for other items of the same unit of work are unchanged; when tell()
\* succeeds the savepoint is not rolled back and the item is returned.
C12_SavepointIsolatesItem ==
    \A i \in Ended :
        nsavepoint[i] > 0 =>
            /\ nsavepoint[i] = 1
            /\ tellRaised[i] =>
                  /\ nrollback[i] = 1
                  /\ returned[i].how = "raise"
                  /\ session = atEntry[i]
            /\ ~tellRaised[i] =>
                  /\ nrollback[i] = 0
                  /\ returned[i] = [how |-> "return", item |-> items[i]]
                  /\ Cardinality(NoticesOf(i)) = 1
                  /\ \A k \in 1..Len(atEntry[i]) : session[k] = atEntry[i][k]

\* Reached: tell() raised for an item after a notice for an earlier item had
\* been recorded, and that notice is still in the session.
C12_Witness ==
    \E i \in Ended :
        /\ tellRaised[i]
        /\ Len(atEntry[i]) > 0
        /\ session = atEntry[i]

\* The terminal state of an ended execution.
EndOf(i) == path[i][Len(path[i])]

\* The ways through the state machine
\* Gated -> {Skipped | Validated -> {Notified | Aborted}}.
MachinePaths ==
    {<<"Gated", "Skipped">>, <<"Gated", "Validated", "Notified">>,
     <<"Gated", "Validated", "Aborted">>}

\* C19 as stated: every execution of transform() starts in Gated and ends in
\* exactly one of Skipped, Notified, Aborted; none ends outside these three.
C19_ThreeTerminalStates ==
    \A i \in 1..Len(path) :
        /\ path[i][1] = "Gated"
        /\ i \in Ended => path[i] \in MachinePaths

\* C19, amended: every execution of transform() starts in Gated and ends in
\* exactly one of Skipped, Notified, Aborted, or Raised: the error of
\* validate(), or of indexing a bare attempt, propagates before any savepoint
\* is opened, and nothing is recorded or rolled back.  Only a Notified
\* execution leaves a notice.
C19_FourTerminalStates ==
    \A i \in 1..Len(path) :
        /\ path[i][1] = "Gated"
        /\ i \notin Ended => path[i] \in {<<"Gated">>, <<"Gated", "Validated">>}
        /\ i \in Ended =>
              /\ path[i] \in MachinePaths \cup {<<"Gated", "Raised">>}
              /\ EndOf(i) = "Notified" <=> NoticesOf(i) # {}
              /\ EndOf(i) = "Raised" =>
                    /\ items[i].is_valid = "True"
                    /\ nsavepoint[i] = 0
                    /\ nrollback[i] = 0
                    /\ returned[i].how = "raise"

\* Reached: a valid item was skipped over to, notified, and the next valid
\* item's validate() raised.
C19_Witness ==
    /\ Len(returned) = 3
    /\ EndOf(1) = "Skipped"
    /\ EndOf(2) = "Notified"
    /\ EndOf(3) = "Raised"
    /\ nvalidate[3] = 1

(***************************************************************************)
(* Claims about the supervisor                                             *)
(***************************************************************************)

ByPath(l) == l.via \in {"from_file", "from_env"}

\* C14: two loads of the same configuration source (the same filepath through
\* Configuration.from_file or balaio_config_from_env), the second made while
\* the instance of the first is still alive, return the same Configuration
\* instance.
C14_OneInstancePerSource ==
    \A j, k \in 1..Len(loadLog) :
        (/\ j < k
         /\ ByPath(loadLog[j]) /\ ByPath(loadLog[k])
         /\ loadLog[j].path = loadLog[k].path
         /\ loadLog[j].inst \in loadLog[k].live)
        => loadLog[k].inst = loadLog[j].inst

(***************************************************************************)
(* Claims about the ISSN functions                                         *)
(***************************************************************************)

\* The check digit as the claim gives it: weights 8 down to 2 over the
\* characters before the last, the hyphens removed.
ClaimWeights == <<8, 7, 6, 5, 4, 3, 2>>

ClaimDigitChars == <<"0", "1", "2", "3", "4", "5", "6", "7", "8", "9", "X">>

DigitOf(c) == (CHOOSE n \in 1..10 : ClaimDigitChars[n] = c) - 1

RECURSIVE ClaimSum(_, _)
ClaimSum(b, k) == IF k = 0 THEN 0 ELSE ClaimSum(b, k - 1) + ClaimWeights[k] * DigitOf(b[k])

\* The final character of the text s is its check digit.
ClaimCheckDigitOk(s) ==
    LET b == AllButLast(NoHyphens(s)) IN
    /\ Len(b) <= Len(ClaimWeights)
    /\ \A k \in 1..Len(b) : b[k] \in Digits
    /\ LET r == ClaimSum(b, Len(b)) % 11
           d == IF r = 0 THEN 0 ELSE 11 - r
       IN s[Len(s)] = ClaimDigitChars[d + 1]

ClaimHasHyphen(s) == \E i \in 1..Len(s) : s[i] = "-"

\* C15: validate_issn checks type, length, hyphen and check digit in this
\* order and raises the error of the first violated condition; a 9-character
\* text of digits, hyphens and 'X' is returned unchanged exactly when it has
\* a hyphen and its final character is the check digit; is_valid_issn returns
\* true exactly when validate_issn returns, and false when it raises a type
\* or value error.
C15_IssnValidation ==
    ret # Pending =>
        LET v == call.args[1] IN
        /\ call.fn = "validate_issn" =>
              /\ ~IsText(v) => ret = Raise("TypeError", "Invalid type")
              /\ IsText(v) /\ Len(v.s) # 9 => ret = Raise("ValueError", "Invalid length")
              /\ IsText(v) /\ Len(v.s) = 9 /\ ~ClaimHasHyphen(v.s)
                    => ret = Raise("ValueError", "Invalid format")
              /\ IsText(v) /\ Len(v.s) = 9 /\ ClaimHasHyphen(v.s) /\ ~ClaimCheckDigitOk(v.s)
                    => ret.st = "raise" /\ ret.exc = "ValueError"
                       /\ ret.msg \notin {"Invalid length", "Invalid format"}
              /\ IsText(v) /\ Len(v.s) = 9 =>
                    (ret = Return(<<v>>) <=> ClaimHasHyphen(v.s) /\ ClaimCheckDigitOk(v.s))
        /\ call.fn = "is_valid_issn" =>
              /\ ret.st = "return"
              /\ ret.val = <<Bool(validate_issn(v).st = "return")>>
              /\ ret.val = <<Bool(IsText(v) /\ Len(v.s) = 9 /\ ClaimHasHyphen(v.s)
                                  /\ ClaimCheckDigitOk(v.s))>>

\* Reached: validate_issn has returned a text whose check digit is 'X'.
C15_Witness ==
    /\ call.fn = "validate_issn"
    /\ call.args = <<Text(<<"1", "0", "0", "0", "-", "1", "0", "0", "X">>)>>
    /\ ret = Return(call.args)

(***************************************************************************)
(* Claims about the issue-designator functions                             *)
(***************************************************************************)

\* The call of fn has returned.
Returned(fn) == call.fn = fn /\ ret.st = "return"

\* C16 as stated: supplement_type returns a pair of which exactly one is
\* non-absent, for every input: the number-level one when a number is
\* present, otherwise the volume-level one.
C16_ExactlyOneSupplement ==
    Returned("supplement_type") =>
        /\ (ret.val[1] # None) # (ret.val[2] # None)
        /\ Truthy(call.args[2]) <=> ret.val[2] # None

\* C16, amended: supplement_type returns a pair of which at most one is
\* non-absent, and exactly one when the supplement is non-absent: the
\* supplement is the number-level one when a number is present (not absent,
\* not empty), otherwise the volume-level one; the other one is absent.
C16_AtMostOneSupplement ==
    Returned("supplement_type") =>
        /\ ret.val[1] = None \/ ret.val[2] = None
        /\ call.args[3] # None => (ret.val[1] # None) # (ret.val[2] # None)
        /\ Truthy(call.args[2]) => ret.val = <<None, call.args[3]>>
        /\ ~Truthy(call.args[2]) => ret.val = <<call.args[3], None>>

\* Reached: supplement_type was called with a number and an absent supplement
\* and returned a pair with both fields absent.
C16_Witness ==
    /\ Returned("supplement_type")
    /\ call.args[2] = Text(<<"2">>)
    /\ call.args[3] = None
    /\ ret.val = <<None, None>>

\* The text s has the marker, in any case.
HasMarker(s) == \E i \in 1..(Len(s) - 2) : lower(SubSeq(s, i, i + 2)) = sup

\* The position of the first character of the first marker of s.
MarkerAt(s) ==
    CHOOSE i \in 1..(Len(s) - 2) :
        /\ lower(SubSeq(s, i, i + 2)) = sup
        /\ \A j \in 1..(i - 1) : lower(SubSeq(s, j, j + 2)) # sup

\* The position of the first space of s at or after position i, Len(s) + 1 if
\* there is none.
SpaceFrom(s, i) ==
    CHOOSE k \in i..(Len(s) + 1) :
        /\ k = Len(s) + 1 \/ s[k] = " "
        /\ \A j \in i..(k - 1) : s[j] # " "

\* C17: parse_issue_tag(text) returns (text, absent, absent) when text has no
\* case-insensitive 'sup' marker; when it has one, the number is the text
\* before the marker, trimmed (absent if empty), the label is the
\* original-case text from the marker's start up to the next space, and the
\* value is what remains after the label, trimmed (absent if empty).
C17_ParseIssueTag ==
    (Returned("parse_issue_tag") /\ IsText(call.args[1])) =>
        LET s == call.args[1].s IN
        IF HasMarker(s)
        THEN LET m == MarkerAt(s)
                 e == SpaceFrom(s, m)
             IN ret.val = <<NoneIfEmpty(strip(SubSeq(s, 1, m - 1))),
                            Text(SubSeq(s, m, e - 1)),
                            NoneIfEmpty(strip(SubSeq(s, e, Len(s))))>>
        ELSE ret.val = <<call.args[1], None, None>>

\* C17 on the texts that are not empty and have no upper-case letter before
\* the marker.
C17_OnLowerCaseNumbers ==
    (/\ Returned("parse_issue_tag")
     /\ IsText(call.args[1])
     /\ call.args[1].s # <<>>
     /\ \/ ~HasMarker(call.args[1].s)
        \/ LET before == SubSeq(call.args[1].s, 1, MarkerAt(call.args[1].s) - 1)
           IN lower(before) = before)
    => LET s == call.args[1].s IN
        IF HasMarker(s)
        THEN LET m == MarkerAt(s)
                 e == SpaceFrom(s, m)
             IN ret.val = <<NoneIfEmpty(strip(SubSeq(s, 1, m - 1))),
                            Text(SubSeq(s, m, e - 1)),
                            NoneIfEmpty(strip(SubSeq(s, e, Len(s))))>>
        ELSE ret.val = <<call.args[1], None, None>>

\* The text s without its leading zeros.
WithoutLeadingZeros(s) ==
    LET k == CHOOSE i \in 1..(Len(s) + 1) :
                 /\ i = Len(s) + 1 \/ s[i] # "0"
                 /\ \A j \in 1..(i - 1) : s[j] = "0"
    IN SubSeq(s, k, Len(s))

StripZeros(v) == IF v = None THEN None ELSE Text(WithoutLeadingZeros(v.s))

\* C18: issue_identification(volume, number, supplement) returns (volume,
\* volume_supplement, number, number_supplement) where the supplement is the
\* parsed label when the number field has a label with no trailing value and
\* otherwise the supplement argument as it is; it is on the number axis when
\* the parsed number is present and on the volume axis otherwise; volume and
\* number have their leading zeros stripped.  With no marker and an absent
\* supplement argument both supplement fields are absent.
C18_IssueIdentification ==
    Returned("issue_identification") =>
        LET parsed == parse_issue_tag(call.args[2])
            chosen == IF parsed[2] # None /\ parsed[3] = None THEN parsed[2]
                                                              ELSE call.args[3]
        IN /\ ret.val[1] = StripZeros(call.args[1])
           /\ ret.val[3] = StripZeros(parsed[1])
           /\ parsed[1] # None => ret.val[2] = None /\ ret.val[4] = chosen
           /\ parsed[1] = None => ret.val[2] = chosen /\ ret.val[4] = None
           /\ (parsed[2] = None /\ call.args[3] = None)
                 => ret.val[2] = None /\ ret.val[4] = None

\* Reached: a number field with a number, a label and no value, whose label
\* became the number-level supplement in place of the supplement argument.
C18_Witness ==
    /\ Returned("issue_identification")
    /\ call.args = <<Text(<<"0", "1", "0">>), Text(<<"0", "A", "S", "u", "p">>), Text(<<"1">>)>>
    /\ ret.val = <<Text(<<"1", "0">>), None, Text(<<"a">>), Text(<<"S", "u", "p">>)>>

(***************************************************************************)
(* Claims about the static upload                                          *)
(***************************************************************************)

\* upload_static_files has returned its result map.
UploadReturned ==
    \/ call.fn = "upload_static_files" /\ ret.st = "return"
    \/ call.fn = "upload_meta_front"

\* The result map it returned.
ResultMap == IF call.fn = "upload_static_files" THEN ret.val[1] ELSE call.args[2]

\* The positions of the archive's entries of one kind.
EntriesOf(pkg, k) == {i \in 1..Len(pkg) : pkg[i].ext = k}

\* The URI the backend returned for the last upload made for kind k: the
\* image bundle for img, else the last archive entry of that kind.
LastUriOf(pkg, k) ==
    IF k = "img"
       THEN [uri |-> <<"articles", Aid, <<"images", "zip">>>>]
       ELSE LET last == CHOOSE i \in EntriesOf(pkg, k) : \A j \in EntriesOf(pkg, k) : j <= i
            IN [uri |-> <<"articles", Aid, pkg[last].name>>]

\* C21: when upload_static_files returns, its result map has exactly the keys
\* xml, pdf and img, each mapped to the URI the static backend returned for
\* the last upload of that kind, and upload_meta_front finds all three keys
\* in it (it raises no KeyError).
C21_ThreeKeyResultMap ==
    UploadReturned =>
        /\ DOMAIN ResultMap = {"xml", "pdf", "img"}
        /\ \A k \in {"xml", "pdf"} : EntriesOf(call.args[1], k) # {}
        /\ \A k \in DOMAIN ResultMap : ResultMap[k] = LastUriOf(call.args[1], k)
        /\ call.fn = "upload_meta_front" => ret.exc # "KeyError"

\* The same for the packages that hold at least one xml and one pdf entry,
\* where it holds.
C21_OnCompletePackages ==
    (\A k \in {"xml", "pdf"} : EntriesOf(call.args[1], k) # {}) => C21_ThreeKeyResultMap

====
